---- MODULE Spec2Model ----
(***************************************************************************)
(* A model of package selfupdate (selfupdate.go): the schedule gate        *)
(* (wantUpdate), the manifest resolver (fetch / fetchInfo), the update     *)
(* orchestrator (UpdateAvailable / Update) and BackgroundRun.              *)
(*                                                                         *)
(* Each caller (goroutine or process running the same binary) owns an      *)
(* Updater value u[p] and a position pc[p]; the executable, the schedule   *)
(* file {Dir}cktime and the clock are shared.  The steps of a call are cut *)
(* at its blocking operations: the schedule file read, the schedule file   *)
(* write, the manifest fetch, and the two update.FromUrl calls.            *)
(*                                                                         *)
(* Spec has one caller making calls one after the other; SpecConcurrent    *)
(* has two callers each inside one BackgroundRun; SpecMock is the          *)
(* mockRequester of the tests on its own.                                  *)
(***************************************************************************)
EXTENDS Integers, Sequences, FiniteSets, TLC

VARIABLES
    u,        \* u[p]: the Updater struct of caller p
    exe,      \* the executable on disk
    cktime,   \* the schedule file: <<>> when absent, <<t>> when it holds t
    writable, \* whether the state directory can be written
    now,      \* the clock, in ticks
    pc,       \* pc[p]: position of caller p
    op,       \* op[p]: the exported method caller p is in
    gate,     \* gate[p]: what wantUpdate returned in this call
    stamp,    \* stamp[p]: <<t0, t>> when wantUpdate wrote t having read the clock at t0
    avail,    \* avail[p]: what UpdateAvailable returned in this call
    reqs,     \* reqs[p]: the URLs requested in this call, in order
    tries,    \* tries[p]: the (err, errRecover) of each FromUrl of this call
    calls,    \* calls[p]: the methods entered in this call, in order
    pre,      \* pre[p]: the Updater and the disk as they were when the call began
    result,   \* result[p]: the values the exported method returned
    manifest, \* manifest[p]: what the Requester returned for the manifest in this call
    granted,  \* the timestamp persisted by the last wantUpdate that returned true
    lost,     \* the FromUrl result that removed the executable, if any
    mr,       \* the mockRequester of the tests: its cursor and its handlers
    mlog      \* the calls made on mr, in order, each with what it returned

vars == <<u, exe, cktime, writable, now, pc, op, gate, stamp, avail, reqs,
          tries, calls, pre, result, manifest, granted, lost, mr, mlog>>

-----------------------------------------------------------------------------
(* Bounds of the model *)

\* the clock runs from 0 to MaxNow
MaxNow == 2
\* ticks of the clock in 24 hours
TicksPerDay == 2
\* number of distinct well-formed digests a manifest or a candidate can have
NumHashes == 1
\* number of calls made on the mock requester
MaxCalls == 5
\* number of distinct handlers that answer with a stream
NumHandlers == 2

(* Program constants *)

\* sha256.Size
sha256Size == 32

\* runtime.GOOS + "-" + runtime.GOARCH
plat == "linux" \o "-" \o "amd64"

upcktimePath == "cktime"

-----------------------------------------------------------------------------
(* Errors.  nil is <<>>; errors.New(m) is <<m>>; fmt.Errorf with two %q    *)
(* operands is <<format, a, b>>, so that both operands stay visible.       *)

nil == <<>>

ErrorsNew(m) == <<m>>

Errorf(format, a, b) == <<format, a, b>>

ErrHashMismatch == ErrorsNew("new file hash mismatch after patch")

ErrInvalidHashLength == ErrorsNew("Invalid hash length")

-----------------------------------------------------------------------------
(* Digests are byte sequences; the content of an executable is identified  *)
(* with its SHA-256 digest.                                                *)

Fill(n, b) == [i \in 1..n |-> b]

ValidHashes == {Fill(sha256Size, b) : b \in 1..NumHashes}

OriginalSha == Fill(sha256Size, 0)

\* digests of the wrong length a manifest can carry ("Sha256": null decodes to nil)
BadHashes == {<<>>, Fill(sha256Size - 1, 1)}

Procs == {"a", "b"}

Main == "a"

Versions == {"1", "2"}

CurrentVersions == {"dev", "1"}

-----------------------------------------------------------------------------
(* The environment: clock, random source, schedule file.                   *)

\* 24*time.Hour
Day == TicksPerDay

\* randDuration(n): a duration in [0, n)
randDuration(n) == 0..(n - 1)

\* the zero time.Time, which readTime returns when the file does not exist
ZeroTime == -1

\* readTime(path): the persisted timestamp
readTime(file) == IF file = <<>> THEN ZeroTime ELSE file[1]

\* writeTime(path, t): the file after the write, and whether the write succeeded
writeTime(file, t) ==
    IF writable THEN [file |-> <<t>>, ok |-> TRUE]
                ELSE [file |-> file, ok |-> FALSE]

\* t.After(s)
After(t, s) == t > s

-----------------------------------------------------------------------------
(* The Updater struct and its URLs                                         *)

ZeroInfo == [Version |-> "", Sha256 |-> nil]

\* the Updater of the documentation example, with the three optional or
\* run-dependent fields left open
NewUpdater(version, requester, logger) ==
    [CurrentVersion |-> version,
     ApiURL         |-> "http://updates.yourdomain.com/",
     BinURL         |-> "http://updates.yourdownmain.com/",
     DiffURL        |-> "http://updates.yourdomain.com/",
     Dir            |-> "update/",
     CmdName        |-> "myapp",
     Requester      |-> requester,
     Info           |-> ZeroInfo,
     Logger         |-> logger]

\* the URL fetchInfo requests
infoURL(up) == up.ApiURL \o up.CmdName \o "/" \o plat \o ".json"

\* the URL of the patch attempt
patchURL(up) ==
    up.DiffURL \o up.CmdName \o "/" \o up.CurrentVersion \o "/" \o up.Info.Version \o "/" \o plat

\* faulty variant of binURL: the version running, not the version announced
binURL_CurrentVersion(up) ==
    up.BinURL \o up.CmdName \o "/" \o up.CurrentVersion \o "/" \o plat \o ".gz"

\* the URL of the full binary attempt
binURL(up) == up.BinURL \o up.CmdName \o "/" \o up.Info.Version \o "/" \o plat \o ".gz"

-----------------------------------------------------------------------------
(* The manifest resolver                                                   *)

\* A JSON member as the decoder meets it: not in the document, present with
\* a value of the wrong type (or a string that is not base64), or a value.
Absent == <<"absent">>

BadType == <<"bad">>

Value(v) == <<"value", v>>

\* a body that is not a JSON value at all
Garbage == [syntax |-> FALSE, Version |-> Absent, Sha256 |-> Absent]

\* the bodies a manifest request can yield
Bodies ==
    {Garbage} \cup
    [syntax  : {TRUE},
     Version : {Absent} \cup {Value(v) : v \in Versions},
     Sha256  : {Absent, BadType} \cup {Value(h) : h \in ValidHashes \cup BadHashes}]

\* what Requester.Fetch can return: a stream or nil, and an error or nil (a
\* stream returned together with an error is never read, so one stands for all)
Responses ==
    [rc : {<<>>} \cup {<<b>> : b \in Bodies}, err : {nil}] \cup
    [rc : {<<>>, <<Garbage>>}, err : {ErrorsNew("transport error")}]

\* faulty variant of fetch: the stream is tested before the error
fetch_StreamFirst(up, resp) ==
    LET requester == IF up.Requester = "nil" THEN "HTTPRequester" ELSE up.Requester
    IN  IF resp.rc # <<>>
          THEN [Requester |-> requester, rc |-> resp.rc, err |-> nil]
        ELSE IF resp.err # nil
          THEN [Requester |-> requester, rc |-> <<>>, err |-> resp.err]
        ELSE [Requester |-> requester, rc |-> <<>>,
              err |-> ErrorsNew("Fetch was expected to return non-nil ReadCloser")]

\* u.fetch(url): the Requester the call uses, the stream and the error
fetch(up, resp) ==
    LET requester == IF up.Requester = "nil" THEN "HTTPRequester" ELSE up.Requester
    IN  IF resp.err # nil
          THEN [Requester |-> requester, rc |-> <<>>, err |-> resp.err]
        ELSE IF resp.rc = <<>>
          THEN [Requester |-> requester, rc |-> <<>>,
                err |-> ErrorsNew("Fetch was expected to return non-nil ReadCloser")]
        ELSE [Requester |-> requester, rc |-> resp.rc, err |-> nil]

\* faulty variant of Decode: the struct is zeroed before the document is read
Decode_Fresh(info, body) ==
    IF ~body.syntax
      THEN [Info |-> ZeroInfo, err |-> ErrorsNew("invalid character")]
    ELSE [Info |-> [Version |-> IF body.Version[1] = "value" THEN body.Version[2]
                                                             ELSE ZeroInfo.Version,
                    Sha256  |-> IF body.Sha256[1] = "value" THEN body.Sha256[2]
                                                            ELSE ZeroInfo.Sha256],
          err  |-> IF BadType \in {body.Version, body.Sha256}
                     THEN ErrorsNew("json: cannot unmarshal")
                   ELSE nil]

\* json.NewDecoder(r).Decode(&u.Info): a member of the document overwrites the
\* field, a member that is absent or cannot be converted leaves it as it was
Decode(info, body) ==
    IF ~body.syntax
      THEN [Info |-> info, err |-> ErrorsNew("invalid character")]
    ELSE [Info |-> [Version |-> IF body.Version[1] = "value" THEN body.Version[2]
                                                             ELSE info.Version,
                    Sha256  |-> IF body.Sha256[1] = "value" THEN body.Sha256[2]
                                                            ELSE info.Sha256],
          err  |-> IF BadType \in {body.Version, body.Sha256}
                     THEN ErrorsNew("json: cannot unmarshal")
                   ELSE nil]

\* faulty variant of hashLengthOK: only an empty hash is refused
hashLengthOK_NonEmpty(info) == Len(info.Sha256) > 0

\* fetchInfo's test of the decoded hash
hashLengthOK(info) == Len(info.Sha256) = sha256Size

\* u.fetchInfo(): the Updater after the call, and the error returned
fetchInfo(up, resp) ==
    LET f == fetch(up, resp)
        up1 == [up EXCEPT !.Requester = f.Requester]
    IN  IF f.err # nil THEN [u |-> up1, err |-> f.err]
        ELSE LET d == Decode(up1.Info, f.rc[1])
                 up2 == [up1 EXCEPT !.Info = d.Info]
             IN  IF d.err # nil THEN [u |-> up2, err |-> d.err]
                 ELSE IF ~hashLengthOK(up2.Info)
                   THEN [u |-> up2, err |-> ErrInvalidHashLength]
                 ELSE [u |-> up2, err |-> nil]

\* faulty variant of UpdateAvailable: the version test is left out
UpdateAvailable_NoVersionTest(up, resp) ==
    LET r == fetchInfo(up, resp)
    IN  IF r.err # nil THEN [u |-> r.u, ret |-> <<FALSE, r.err>>]
        ELSE [u |-> r.u, ret |-> <<TRUE, nil>>]

\* u.UpdateAvailable(): the Updater after the call, and the pair returned
UpdateAvailable(up, resp) ==
    LET r == fetchInfo(up, resp)
    IN  IF r.err # nil THEN [u |-> r.u, ret |-> <<FALSE, r.err>>]
        ELSE IF r.u.Info.Version = r.u.CurrentVersion
          THEN [u |-> r.u, ret |-> <<FALSE, nil>>]
        ELSE [u |-> r.u, ret |-> <<TRUE, nil>>]

-----------------------------------------------------------------------------
(* The executable and go-update's Update.FromUrl                           *)

Original == [state |-> "original", sha |-> OriginalSha, manifest |-> nil]

Missing == [state |-> "missing", sha |-> nil, manifest |-> nil]

\* the digests the bytes produced from a patch or a download can have: those
\* a manifest can announce, and that of the executable already installed
Candidates == ValidHashes \cup {OriginalSha}

\* update.FromUrl(url) with the given patch type and checksum, run on the
\* executable `file`: every (err, errRecover) it can return with the effect on
\* the executable.  It downloads the URL, applies the patch (BSDIFF) or takes
\* the bytes as they are (NONE), verifies the checksum when one is set, then
\* moves the old executable aside and the new one in; when the second move
\* fails it moves the old one back, and errRecover is the error of that.
FromUrl(patchType, checksum, file) ==
    LET none(e) == [err |-> e, errRecover |-> nil, effect |-> "none", sha |-> nil]
        early == {none(ErrorsNew("download failed"))} \cup
                 (IF patchType = "BSDIFF"
                    THEN {none(ErrorsNew("corrupt patch"))}
                    ELSE {none(ErrorsNew("gzip: invalid header"))})
        replace(c) ==
            IF file.state = "missing"
              THEN {none(ErrorsNew("rename: no such file or directory"))}
            ELSE {[err |-> nil, errRecover |-> nil, effect |-> "installed", sha |-> c],
                  none(ErrorsNew("rename: permission denied")),
                  [err |-> ErrorsNew("rename: permission denied"),
                   errRecover |-> ErrorsNew("rollback failed"),
                   effect |-> "removed", sha |-> nil]}
        late(c) == IF checksum # nil /\ c # checksum
                     THEN {none(ErrHashMismatch)}
                     ELSE replace(c)
    IN  IF patchType = "BSDIFF" /\ file.state = "missing"
          THEN early \cup {none(ErrorsNew("open: no such file or directory"))}
          ELSE early \cup UNION {late(c) : c \in Candidates}

\* the executable after a FromUrl outcome o of a call that verified against `sum`
Apply(o, sum, file) ==
    IF o.effect = "installed"
      THEN [state |-> "installed", sha |-> o.sha, manifest |-> sum]
    ELSE IF o.effect = "removed" THEN Missing
    ELSE file

-----------------------------------------------------------------------------
(* The schedule gate                                                       *)

\* faulty variant of wantUpdateSkips: the comparison is turned round
wantUpdateSkips_Before(up, file, t) ==
    up.CurrentVersion = "dev" \/ After(t, readTime(file))

\* faulty variant of wantUpdateSkips: the "dev" test is left out
wantUpdateSkips_NoDev(up, file, t) == After(readTime(file), t)

\* faulty variant of wantUpdateSkips: the guard never returns false
wantUpdateSkips_Never(up, file, t) == FALSE

\* wantUpdate, the guard that returns false
wantUpdateSkips(up, file, t) ==
    up.CurrentVersion = "dev" \/ After(readTime(file), t)

\* faulty variant of wantUpdateWait: the 24 hours are left out
wantUpdateWait_JitterOnly == randDuration(Day)

\* wantUpdate, the waits it can draw
wantUpdateWait == {Day + r : r \in randDuration(Day)}

\* faulty variant of wantUpdateReturn: the result of the write is negated
wantUpdateReturn_Not(ok) == ~ok

\* faulty variant of wantUpdateReturn: the result of the write is dropped
wantUpdateReturn_True(ok) == TRUE

\* wantUpdate, what it returns when writeTime returned ok
wantUpdateReturn(ok) == ok

-----------------------------------------------------------------------------
(* The update orchestrator                                                 *)

\* faulty variant of UpdateChecksum: VerifyChecksum is not called
UpdateChecksum_None(up) == nil

\* update.New().ApplyPatch(...).VerifyChecksum(u.Info.Sha256): the checksum set
UpdateChecksum(up) == up.Info.Sha256

\* faulty variant of patchSucceeded: Update falls through to the full binary
patchSucceeded_Never(err) == FALSE

\* Update's test of the patch attempt's error
patchSucceeded(err) == err = nil

\* faulty variant of UpdateResult: the error is lost when the rollback worked
UpdateResult_RecoverOnly(err, errRecover) ==
    IF errRecover # nil
      THEN Errorf("update and recovery errors: %q %q", err, errRecover)
    ELSE nil

\* faulty variant of UpdateResult: the recovery error is not tested
UpdateResult_Always(err, errRecover) ==
    Errorf("update and recovery errors: %q %q", err, errRecover)

\* what Update returns after the full binary attempt
UpdateResult(err, errRecover) ==
    IF errRecover # nil
      THEN Errorf("update and recovery errors: %q %q", err, errRecover)
    ELSE IF err # nil THEN err
    ELSE nil

\* what BackgroundRun returns when Update returned err
BackgroundRunResult(err) == IF err # nil THEN err ELSE nil

-----------------------------------------------------------------------------
(* Initial states: Updaters built as in the documentation example (no       *)
(* Requester: the first fetch installs the HTTP one), with or without a    *)
(* Logger; the original executable; a schedule file that is absent or      *)
(* holds a timestamp (past or future); a state directory writable or not.  *)

InitialFiles == {<<>>, <<0>>, <<Day>>}

Init ==
    /\ \E v \in CurrentVersions, l \in {"nil", "set"} :
          u = [p \in Procs |-> NewUpdater(v, "nil", l)]
    /\ exe = Original
    /\ cktime \in InitialFiles
    /\ writable \in BOOLEAN
    /\ now = 0
    /\ pc = [p \in Procs |-> "idle"]
    /\ op = [p \in Procs |-> "none"]
    /\ gate = [p \in Procs |-> "unset"]
    /\ stamp = [p \in Procs |-> <<>>]
    /\ avail = [p \in Procs |-> <<>>]
    /\ reqs = [p \in Procs |-> <<>>]
    /\ tries = [p \in Procs |-> <<>>]
    /\ calls = [p \in Procs |-> <<>>]
    /\ pre = [p \in Procs |-> <<>>]
    /\ result = [p \in Procs |-> <<>>]
    /\ manifest = [p \in Procs |-> <<>>]
    /\ granted = <<>>
    /\ lost = <<>>
    /\ mr = [currentIndex |-> 0, fetches |-> <<>>]
    /\ mlog = <<>>

\* the Updater and the disk at the start of a call
Snapshot(p) == <<[u |-> u[p], cktime |-> cktime, exe |-> exe, now |-> now]>>

-----------------------------------------------------------------------------
(* BackgroundRun                                                           *)

\* faulty variant of BackgroundRun: a caller waits until no other caller is
\* inside an exported method
BackgroundRun_Locked(p) ==
    /\ pc[p] = "idle"
    /\ \A q \in Procs \ {p} : pc[q] \in {"idle", "ret"}
    /\ op' = [op EXCEPT ![p] = "BackgroundRun"]
    /\ pre' = [pre EXCEPT ![p] = Snapshot(p)]
    /\ calls' = [calls EXCEPT ![p] = <<"BackgroundRun", "wantUpdate">>]
    /\ IF wantUpdateSkips(u[p], cktime, now)
         THEN /\ gate' = [gate EXCEPT ![p] = "false"]
              /\ result' = [result EXCEPT ![p] = <<nil>>]
              /\ pc' = [pc EXCEPT ![p] = "ret"]
         ELSE /\ pc' = [pc EXCEPT ![p] = "write"]
              /\ UNCHANGED <<gate, result>>
    /\ UNCHANGED <<u, exe, cktime, writable, now, stamp, avail, reqs, tries,
                   manifest, granted, lost>>

    /\ UNCHANGED <<mr, mlog>>
\* BackgroundRun up to wantUpdate's guard: MkdirAll, then the version test and
\* the read of the schedule file
BackgroundRun(p) ==
    /\ pc[p] = "idle"
    /\ op' = [op EXCEPT ![p] = "BackgroundRun"]
    /\ pre' = [pre EXCEPT ![p] = Snapshot(p)]
    /\ calls' = [calls EXCEPT ![p] = <<"BackgroundRun", "wantUpdate">>]
    /\ IF wantUpdateSkips(u[p], cktime, now)
         THEN /\ gate' = [gate EXCEPT ![p] = "false"]
              /\ result' = [result EXCEPT ![p] = <<nil>>]
              /\ pc' = [pc EXCEPT ![p] = "ret"]
         ELSE /\ pc' = [pc EXCEPT ![p] = "write"]
              /\ UNCHANGED <<gate, result>>
    /\ UNCHANGED <<u, exe, cktime, writable, now, stamp, avail, reqs, tries,
                   manifest, granted, lost>>

    /\ UNCHANGED <<mr, mlog>>
\* the rest of wantUpdate (draw the wait, write the schedule file) and
\* BackgroundRun's use of its result, up to the call of Update
wantUpdateWrite(p) ==
    /\ pc[p] = "write"
    /\ \E wait \in wantUpdateWait :
          LET w == writeTime(cktime, now + wait)
              want == wantUpdateReturn(w.ok)
          IN  /\ cktime' = w.file
              /\ gate' = [gate EXCEPT ![p] = IF want THEN "true" ELSE "false"]
              /\ stamp' = [stamp EXCEPT ![p] = IF w.ok THEN <<now, now + wait>> ELSE <<>>]
              /\ granted' = IF w.ok THEN <<now + wait>> ELSE granted
              /\ IF ~want
                   THEN /\ result' = [result EXCEPT ![p] = <<nil>>]
                        /\ pc' = [pc EXCEPT ![p] = "ret"]
                 ELSE IF u[p].Logger = "nil"
                   THEN /\ pc' = [pc EXCEPT ![p] = "panic"]
                        /\ UNCHANGED result
                 ELSE /\ pc' = [pc EXCEPT ![p] = "update"]
                      /\ UNCHANGED result
    /\ UNCHANGED <<u, exe, writable, now, op, avail, reqs, tries, calls, pre,
                   manifest, lost>>

    /\ UNCHANGED <<mr, mlog>>
-----------------------------------------------------------------------------
(* Update                                                                  *)

\* Update returns e to the exported method o that caller p is in
UpdateReturns(p, o, e) ==
    /\ result' = [result EXCEPT ![p] =
                     IF o = "BackgroundRun" THEN <<BackgroundRunResult(e)>> ELSE <<e>>]
    /\ pc' = [pc EXCEPT ![p] = "ret"]

\* Update up to its first return: the call of UpdateAvailable
UpdateBegin(p, o) ==
    \E resp \in Responses :
        LET r == UpdateAvailable(u[p], resp)
        IN  /\ u' = [u EXCEPT ![p] = r.u]
            /\ manifest' = [manifest EXCEPT ![p] = <<resp>>]
            /\ avail' = [avail EXCEPT ![p] = r.ret]
            /\ reqs' = [reqs EXCEPT ![p] = Append(@, infoURL(u[p]))]
            /\ IF r.ret[1] = FALSE
                 THEN UpdateReturns(p, o, r.ret[2])
                 ELSE /\ pc' = [pc EXCEPT ![p] = "patch"]
                      /\ UNCHANGED result

\* Update called by the host
Update(p) ==
    /\ pc[p] = "idle"
    /\ op' = [op EXCEPT ![p] = "Update"]
    /\ pre' = [pre EXCEPT ![p] = Snapshot(p)]
    /\ calls' = [calls EXCEPT ![p] = <<"Update", "UpdateAvailable">>]
    /\ UpdateBegin(p, "Update")
    /\ UNCHANGED <<exe, cktime, writable, now, gate, stamp, tries, granted, lost>>

    /\ UNCHANGED <<mr, mlog>>
\* Update called by BackgroundRun
BackgroundUpdate(p) ==
    /\ pc[p] = "update"
    /\ calls' = [calls EXCEPT ![p] = @ \o <<"Update", "UpdateAvailable">>]
    /\ UpdateBegin(p, "BackgroundRun")
    /\ UNCHANGED <<exe, cktime, writable, now, op, gate, stamp, tries, pre,
                   granted, lost>>

    /\ UNCHANGED <<mr, mlog>>
\* the patch attempt
PatchAttempt(p) ==
    /\ pc[p] = "patch"
    /\ \E o \in FromUrl("BSDIFF", UpdateChecksum(u[p]), exe) :
          /\ reqs' = [reqs EXCEPT ![p] = Append(@, patchURL(u[p]))]
          /\ tries' = [tries EXCEPT ![p] =
                          Append(@, [err |-> o.err, errRecover |-> o.errRecover])]
          /\ exe' = Apply(o, u[p].Info.Sha256, exe)
          /\ lost' = IF o.effect = "removed"
                       THEN <<[err |-> o.err, errRecover |-> o.errRecover]>>
                       ELSE lost
          /\ IF patchSucceeded(o.err)
               THEN UpdateReturns(p, op[p], nil)
               ELSE /\ pc' = [pc EXCEPT ![p] = "full"]
                    /\ UNCHANGED result
    /\ UNCHANGED <<u, cktime, writable, now, op, gate, stamp, avail, calls, pre,
                   manifest, granted>>

    /\ UNCHANGED <<mr, mlog>>
\* the full binary attempt
FullAttempt(p) ==
    /\ pc[p] = "full"
    /\ \E o \in FromUrl("NONE", UpdateChecksum(u[p]), exe) :
          /\ reqs' = [reqs EXCEPT ![p] = Append(@, binURL(u[p]))]
          /\ tries' = [tries EXCEPT ![p] =
                          Append(@, [err |-> o.err, errRecover |-> o.errRecover])]
          /\ exe' = Apply(o, u[p].Info.Sha256, exe)
          /\ lost' = IF o.effect = "removed"
                       THEN <<[err |-> o.err, errRecover |-> o.errRecover]>>
                       ELSE lost
          /\ UpdateReturns(p, op[p], UpdateResult(o.err, o.errRecover))
    /\ UNCHANGED <<u, cktime, writable, now, op, gate, stamp, avail, calls, pre,
                   manifest, granted>>

    /\ UNCHANGED <<mr, mlog>>
-----------------------------------------------------------------------------
(* UpdateAvailable called by the host                                      *)

CheckAvailable(p) ==
    /\ pc[p] = "idle"
    /\ \E resp \in Responses :
          LET r == UpdateAvailable(u[p], resp)
          IN  /\ u' = [u EXCEPT ![p] = r.u]
              /\ manifest' = [manifest EXCEPT ![p] = <<resp>>]
              /\ avail' = [avail EXCEPT ![p] = r.ret]
              /\ result' = [result EXCEPT ![p] = r.ret]
              /\ reqs' = [reqs EXCEPT ![p] = <<infoURL(u[p])>>]
    /\ op' = [op EXCEPT ![p] = "UpdateAvailable"]
    /\ pre' = [pre EXCEPT ![p] = Snapshot(p)]
    /\ calls' = [calls EXCEPT ![p] = <<"UpdateAvailable">>]
    /\ pc' = [pc EXCEPT ![p] = "ret"]
    /\ UNCHANGED <<exe, cktime, writable, now, gate, stamp, tries, granted, lost>>

    /\ UNCHANGED <<mr, mlog>>
-----------------------------------------------------------------------------
(* The exported method returns to the host; time passes                    *)

Return(p) ==
    /\ pc[p] = "ret"
    /\ pc' = [pc EXCEPT ![p] = "idle"]
    /\ op' = [op EXCEPT ![p] = "none"]
    /\ gate' = [gate EXCEPT ![p] = "unset"]
    /\ stamp' = [stamp EXCEPT ![p] = <<>>]
    /\ avail' = [avail EXCEPT ![p] = <<>>]
    /\ reqs' = [reqs EXCEPT ![p] = <<>>]
    /\ tries' = [tries EXCEPT ![p] = <<>>]
    /\ calls' = [calls EXCEPT ![p] = <<>>]
    /\ pre' = [pre EXCEPT ![p] = <<>>]
    /\ result' = [result EXCEPT ![p] = <<>>]
    /\ manifest' = [manifest EXCEPT ![p] = <<>>]
    /\ UNCHANGED <<u, exe, cktime, writable, now, granted, lost>>

    /\ UNCHANGED <<mr, mlog>>
\* The clock is read by wantUpdate alone, once in each of its two steps, so
\* the time that passes elsewhere in a call is taken as passing before or
\* after the call.
Tick ==
    /\ now < MaxNow
    /\ pc[Main] \in {"idle", "write"}
    /\ now' = now + 1
    /\ UNCHANGED <<u, exe, cktime, writable, pc, op, gate, stamp, avail, reqs,
                   tries, calls, pre, result, manifest, granted, lost>>

    /\ UNCHANGED <<mr, mlog>>
\* one host goroutine makes the calls, one after the other
Next ==
    \/ BackgroundRun(Main)
    \/ wantUpdateWrite(Main)
    \/ Update(Main)
    \/ BackgroundUpdate(Main)
    \/ PatchAttempt(Main)
    \/ FullAttempt(Main)
    \/ CheckAvailable(Main)
    \/ Return(Main)
    \/ Tick

Spec == Init /\ [][Next]_vars

-----------------------------------------------------------------------------
(* Two goroutines of the host each call BackgroundRun once, on Updaters    *)
(* for the same executable and the same state directory. The steps of the  *)
(* two calls interleave freely: nothing in the code orders them. The calls  *)
(* are made within one tick of the clock.                                  *)

NextConcurrent ==
    \E p \in Procs :
        \/ BackgroundRun(p)
        \/ wantUpdateWrite(p)
        \/ BackgroundUpdate(p)
        \/ PatchAttempt(p)
        \/ FullAttempt(p)

SpecConcurrent == Init /\ [][NextConcurrent]_vars

-----------------------------------------------------------------------------
(* The mockRequester of the tests: a queue of request handlers and a       *)
(* cursor.  A handler is a closure; handler 0 stands for one that returns  *)
(* an error, handler h > 0 for one that returns a stream of its own.       *)

Handlers == 0..NumHandlers

MockURLs == {"http://updates.yourdomain.com/myapp/linux-amd64.json",
             "http://updates.yourdownmain.com/myapp/2/linux-amd64.gz"}

\* requestHandler(url): the stream and the error the closure returns
Invoke(requestHandler, url) ==
    IF requestHandler = 0
      THEN [rc |-> <<>>, err |-> ErrorsNew("handler error")]
    ELSE [rc |-> <<[by |-> requestHandler, url |-> url]>>, err |-> nil]

\* faulty variant of mockRequesterFetch: the cursor advances on every call
mockRequesterFetch_Advance(m, url) ==
    IF Len(m.fetches) <= m.currentIndex
      THEN [mr      |-> [m EXCEPT !.currentIndex = @ + 1],
            invoked |-> <<>>,
            rc      |-> <<>>,
            err     |-> <<"No for currentIndex %d to mock", m.currentIndex>>]
    ELSE LET current == m.fetches[m.currentIndex + 1]
         IN  [mr      |-> [m EXCEPT !.currentIndex = @ + 1],
              invoked |-> <<[handler |-> current, url |-> url]>>,
              rc      |-> Invoke(current, url).rc,
              err     |-> Invoke(current, url).err]

\* mr.Fetch(url): the mock after the call, the handler invoked and its
\* argument (if any), and the stream and the error returned
mockRequesterFetch(m, url) ==
    IF Len(m.fetches) <= m.currentIndex
      THEN [mr      |-> m,
            invoked |-> <<>>,
            rc      |-> <<>>,
            err     |-> <<"No for currentIndex %d to mock", m.currentIndex>>]
    ELSE LET current == m.fetches[m.currentIndex + 1]
         IN  [mr      |-> [m EXCEPT !.currentIndex = @ + 1],
              invoked |-> <<[handler |-> current, url |-> url]>>,
              rc      |-> Invoke(current, url).rc,
              err     |-> Invoke(current, url).err]

\* mr.handleRequest(requestHandler)
handleRequest(requestHandler) ==
    /\ Len(mlog) < MaxCalls
    /\ mr' = [mr EXCEPT !.fetches = Append(@, requestHandler)]
    /\ mlog' = Append(mlog, [call |-> "handleRequest", handler |-> requestHandler])
    /\ UNCHANGED <<u, exe, cktime, writable, now, pc, op, gate, stamp, avail,
                   reqs, tries, calls, pre, result, manifest, granted, lost>>

\* mr.Fetch(url)
Fetch(url) ==
    /\ Len(mlog) < MaxCalls
    /\ LET r == mockRequesterFetch(mr, url)
       IN  /\ mr' = r.mr
           /\ mlog' = Append(mlog, [call    |-> "Fetch",
                                    url     |-> url,
                                    index   |-> mr.currentIndex,
                                    after   |-> r.mr.currentIndex,
                                    invoked |-> r.invoked,
                                    rc      |-> r.rc,
                                    err     |-> r.err])
    /\ UNCHANGED <<u, exe, cktime, writable, now, pc, op, gate, stamp, avail,
                   reqs, tries, calls, pre, result, manifest, granted, lost>>

\* a test with a fresh mock; the Updater is not called
InitMock ==
    /\ Init
    /\ u[Main].CurrentVersion = "1" /\ u[Main].Logger = "set"
    /\ cktime = <<>> /\ writable

NextMock ==
    \/ \E requestHandler \in Handlers : handleRequest(requestHandler)
    \/ \E url \in MockURLs : Fetch(url)

SpecMock == InitMock /\ [][NextMock]_vars

-----------------------------------------------------------------------------
(* Vocabulary of the properties                                            *)

\* caller p has returned from the exported method
Returned(p) == pc[p] = "ret"

\* this call of caller p ran Update (called by the host or by BackgroundRun)
RanUpdate(p) == \E i \in DOMAIN calls[p] : calls[p][i] = "Update"

\* this call of caller p has fetched the manifest
Fetched(p) == manifest[p] # <<>>

\* the manifest the Requester delivered: a stream, no error, a JSON document
Delivered(p) ==
    /\ Fetched(p)
    /\ manifest[p][1].err = nil
    /\ manifest[p][1].rc # <<>>
    /\ manifest[p][1].rc[1].syntax

\* the document of a delivered manifest
Doc(p) == manifest[p][1].rc[1]

\* the patch attempt of this call has completed / has failed
PatchDone(p) == Len(tries[p]) >= 1

PatchFailed(p) == PatchDone(p) /\ tries[p][1].err # nil

\* the full binary attempt of this call has completed / has failed
FullDone(p) == Len(tries[p]) >= 2

FullFailed(p) == FullDone(p) /\ tries[p][2].err # nil

\* the two payload URLs of the update protocol, written out
PatchURLOf(p) ==
    u[p].DiffURL \o u[p].CmdName \o "/" \o u[p].CurrentVersion \o "/"
        \o u[p].Info.Version \o "/" \o "linux-amd64"

FullURLOf(p) ==
    u[p].BinURL \o u[p].CmdName \o "/" \o u[p].Info.Version \o "/"
        \o "linux-amd64" \o ".gz"

\* the positions of url in the requests of this call
Positions(p, url) == {i \in DOMAIN reqs[p] : reqs[p][i] = url}

\* error e reports error x: it is x, or it was formatted from x
Reports(e, x) == e = x \/ (Len(e) = 3 /\ (e[2] = x \/ e[3] = x))

-----------------------------------------------------------------------------
-----------------------------------------------------------------------------
\* the manifest of this call is valid and announces the version v
Announces(p, v) ==
    /\ Delivered(p)
    /\ Doc(p).Version = Value(v)
    /\ Doc(p).Sha256[1] = "value" /\ Len(Doc(p).Sha256[2]) = 32

\* C2: whenever the fetched manifest is valid and its version equals
\* CurrentVersion, UpdateAvailable returns (false, nil), Update (and a
\* BackgroundRun that reached it) returns nil, the manifest request is the only
\* request of the call, and the executable is as it was before the call.
C2_UpToDate ==
    \A p \in Procs :
        (Returned(p) /\ Announces(p, pre[p][1].u.CurrentVersion)) =>
            /\ avail[p] = <<FALSE, nil>>
            /\ op[p] = "UpdateAvailable" => result[p] = <<FALSE, nil>>
            /\ op[p] \in {"Update", "BackgroundRun"} => result[p] = <<nil>>
            /\ Len(reqs[p]) = 1 /\ tries[p] = <<>>
            /\ exe = pre[p][1].exe

\* C2 witness: Update has returned nil on a valid manifest of the running version.
C2_Witness ==
    /\ Returned(Main) /\ op[Main] = "Update"
    /\ Announces(Main, u[Main].CurrentVersion)
    /\ result[Main] = <<nil>>

-----------------------------------------------------------------------------
\* C3: within one call, the full binary URL is requested only after the patch
\* URL, and only when the patch attempt has completed with an error; when the
\* patch attempt succeeds, Update returns nil at once and the full binary URL is
\* not requested.
C3_PatchBeforeFull ==
    \A p \in Procs :
        /\ \A i \in Positions(p, FullURLOf(p)) :
              /\ PatchFailed(p)
              /\ \E j \in Positions(p, PatchURLOf(p)) : j < i
        /\ (PatchDone(p) /\ ~PatchFailed(p)) =>
              /\ Returned(p) /\ result[p] = <<nil>>
              /\ Len(tries[p]) = 1
              /\ Positions(p, FullURLOf(p)) = {}

\* C3 witness: Update has returned after a patch attempt that succeeded.
C3_Witness ==
    /\ Returned(Main) /\ PatchDone(Main) /\ ~PatchFailed(Main)
    /\ exe.state = "installed" /\ result[Main] = <<nil>>

-----------------------------------------------------------------------------
\* C4: when Update returns after a patch attempt that failed (download error,
\* corrupt patch, hash mismatch or a failed replace), the call has requested
\* BinURL + CmdName + "/" + Info.Version + "/" + plat + ".gz" exactly once and
\* the patch URL exactly once.
C4_FullOnce ==
    \A p \in Procs :
        (Returned(p) /\ PatchFailed(p)) =>
            /\ Cardinality(Positions(p, FullURLOf(p))) = 1
            /\ Cardinality(Positions(p, PatchURLOf(p))) = 1
            /\ Len(reqs[p]) = 3

\* C4 witness: Update has returned after a patch attempt that ended in a hash
\* mismatch.
C4_Witness ==
    /\ Returned(Main) /\ PatchFailed(Main)
    /\ tries[Main][1].err = ErrHashMismatch
    /\ reqs[Main][3] = FullURLOf(Main)

-----------------------------------------------------------------------------
-----------------------------------------------------------------------------
\* C6: when the patch attempt fails and the full binary attempt succeeds, Update
\* returns nil: the patch attempt's error is not returned.
C6_FallbackSucceeds ==
    \A p \in Procs :
        (Returned(p) /\ PatchFailed(p) /\ FullDone(p) /\ ~FullFailed(p)) =>
            /\ result[p] = <<nil>>
            /\ exe.state = "installed"

\* C6 witness: Update has returned after a corrupt patch and a full binary
\* attempt that succeeded.
C6_Witness ==
    /\ Returned(Main) /\ op[Main] = "Update"
    /\ PatchFailed(Main) /\ tries[Main][1].err = ErrorsNew("corrupt patch")
    /\ FullDone(Main) /\ tries[Main][2].err = nil
    /\ result[Main] = <<nil>>

-----------------------------------------------------------------------------
\* the hash u.Info.Sha256 holds after a delivered manifest has been decoded
\* without error: the Sha256 member of the document, or, when the document has
\* none, the hash the Updater held before the call
DecodedHash(p) ==
    IF Doc(p).Sha256[1] = "value" THEN Doc(p).Sha256[2]
                                  ELSE pre[p][1].u.Info.Sha256

-----------------------------------------------------------------------------
\* the manifest stage of this call failed: the Requester returned an error, or
\* neither a stream nor an error, or the stream cannot be decoded
FetcherError(p) == Fetched(p) /\ manifest[p][1].err # nil

FetcherNeither(p) ==
    Fetched(p) /\ manifest[p][1].err = nil /\ manifest[p][1].rc = <<>>

Undecodable(p) ==
    /\ Fetched(p) /\ manifest[p][1].err = nil /\ manifest[p][1].rc # <<>>
    /\ (~Doc(p).syntax \/ Doc(p).Sha256 = BadType)

\* C8: whenever the manifest stage fails, UpdateAvailable returns (false, err)
\* with err non-nil (the Requester's own error when it returned one), Update
\* returns that same err, the manifest request is the only request of the call
\* and the executable is as it was before the call.
C8_ManifestFailure ==
    \A p \in Procs :
        (Returned(p) /\ (FetcherError(p) \/ FetcherNeither(p) \/ Undecodable(p))) =>
            /\ avail[p][1] = FALSE /\ avail[p][2] # nil
            /\ FetcherError(p) => avail[p][2] = manifest[p][1].err
            /\ op[p] = "UpdateAvailable" => result[p] = avail[p]
            /\ op[p] \in {"Update", "BackgroundRun"} => result[p] = <<avail[p][2]>>
            /\ Len(reqs[p]) = 1 /\ tries[p] = <<>>
            /\ exe = pre[p][1].exe

\* C8 witness: Update has returned the error made for a Requester that returned
\* neither a stream nor an error.
C8_Witness ==
    /\ Returned(Main) /\ op[Main] = "Update" /\ FetcherNeither(Main)
    /\ result[Main] = <<<<"Fetch was expected to return non-nil ReadCloser">>>>

-----------------------------------------------------------------------------
\* the schedule gate of this call has returned
GateDone(p) == op[p] = "BackgroundRun" /\ gate[p] # "unset"

\* C9: for a version other than "dev" and a writable state directory, (a) a gate
\* call that finds no timestamp, or one that is not in the future, returns true
\* and leaves in the schedule file a timestamp later than the instant it was
\* written at; (b) a gate call made while the persisted timestamp is in the
\* future returns false.
C9_GateOncePerPeriod ==
    \A p \in Procs :
        (GateDone(p) /\ pre[p][1].u.CurrentVersion # "dev" /\ writable) =>
            LET file == pre[p][1].cktime
                t0 == pre[p][1].now
            IN  /\ (file = <<>> \/ (file # <<>> /\ file[1] <= t0)) =>
                      /\ gate[p] = "true"
                      /\ stamp[p] # <<>> /\ stamp[p][2] > stamp[p][1]
                      /\ cktime = <<stamp[p][2]>>
                /\ (file # <<>> /\ file[1] > t0) =>
                      /\ gate[p] = "false"
                      /\ cktime = file

\* C9 witness: a gate call has returned false on a timestamp, still in the
\* future, that an earlier gate call persisted when it returned true.
C9_Witness ==
    /\ Returned(Main) /\ GateDone(Main) /\ gate[Main] = "false"
    /\ u[Main].CurrentVersion # "dev" /\ writable
    /\ granted # <<>> /\ pre[Main][1].cktime = granted
    /\ granted[1] > pre[Main][1].now

-----------------------------------------------------------------------------
\* C10: when CurrentVersion is "dev", BackgroundRun's gate returns false whatever
\* the schedule file holds, Update is not entered, no request is made, and
\* BackgroundRun returns nil.
C10_DevNeverUpdates ==
    \A p \in Procs :
        (op[p] = "BackgroundRun" /\ u[p].CurrentVersion = "dev") =>
            /\ Returned(p) /\ gate[p] = "false"
            /\ ~RanUpdate(p) /\ reqs[p] = <<>> /\ tries[p] = <<>>
            /\ result[p] = <<nil>>

\* C10 witness: a "dev" BackgroundRun has returned nil with the gate false
\* although the persisted timestamp had elapsed.
C10_Witness ==
    /\ Returned(Main) /\ op[Main] = "BackgroundRun" /\ u[Main].CurrentVersion = "dev"
    /\ pre[Main][1].cktime # <<>> /\ pre[Main][1].cktime[1] < pre[Main][1].now
    /\ writable /\ gate[Main] = "false" /\ result[Main] = <<nil>>

-----------------------------------------------------------------------------
\* this gate call got past the guard of wantUpdate: the version is not "dev"
\* and the schedule file held no timestamp in the future when the call began
PastGuard(p) ==
    /\ pre[p][1].u.CurrentVersion # "dev"
    /\ (pre[p][1].cktime = <<>> \/ pre[p][1].cktime[1] <= pre[p][1].now)

\* C11: when the write of the schedule timestamp fails, the gate returns false
\* and BackgroundRun returns nil; Update is not entered, no request is made, and
\* the schedule file is as it was.
C11_WriteFailure ==
    \A p \in Procs :
        (GateDone(p) /\ PastGuard(p) /\ ~writable) =>
            /\ gate[p] = "false" /\ stamp[p] = <<>>
            /\ Returned(p) /\ result[p] = <<nil>>
            /\ ~RanUpdate(p) /\ reqs[p] = <<>> /\ tries[p] = <<>>
            /\ cktime = pre[p][1].cktime

\* C11 witness: a BackgroundRun whose check was due has returned nil after the
\* write of the timestamp failed.
C11_Witness ==
    /\ Returned(Main) /\ GateDone(Main) /\ PastGuard(Main) /\ ~writable
    /\ calls[Main] = <<"BackgroundRun", "wantUpdate">>
    /\ result[Main] = <<nil>>

-----------------------------------------------------------------------------
\* how many times the exported or internal method m was entered in this call
Count(p, m) == Cardinality({i \in DOMAIN calls[p] : calls[p][i] = m})

\* the error the Update of this call returned, read off what the call did
UpdateError(p) ==
    IF avail[p][1] = FALSE THEN avail[p][2]
    ELSE IF ~PatchFailed(p) THEN nil
    ELSE IF tries[p][2].errRecover # nil
      THEN <<"update and recovery errors: %q %q", tries[p][2].err, tries[p][2].errRecover>>
    ELSE tries[p][2].err

\* BackgroundRun has the gate's answer and is calling Update, is in it, or has
\* returned
Proceeds(p) == pc[p] \in {"update", "patch", "full", "ret"}

\* C12 (as stated): one BackgroundRun consults the gate exactly once, calls
\* Update at most once and only when the gate returned true, and once the gate
\* has answered it goes on to return: Update's error when Update fails, nil in
\* every other case.
C12_AsStated ==
    \A p \in Procs :
        op[p] = "BackgroundRun" =>
            /\ Count(p, "wantUpdate") = 1
            /\ Count(p, "Update") <= 1
            /\ RanUpdate(p) => gate[p] = "true"
            /\ GateDone(p) => Proceeds(p)
            /\ Returned(p) =>
                  result[p] = IF RanUpdate(p) THEN <<UpdateError(p)>> ELSE <<nil>>

-----------------------------------------------------------------------------
\* the schedule file holds a timestamp that is in the future at instant t
Future(file, t) == file # <<>> /\ file[1] > t

\* C13: whenever BackgroundRun goes on to Update, the new schedule timestamp is
\* in the schedule file before the manifest is requested, and it stays there
\* whatever Update does and after the call has returned; a BackgroundRun that
\* begins while the file holds a timestamp in the future returns nil without
\* calling Update and without any request.
C13_PersistedBeforeUpdate ==
    /\ \A p \in Procs :
          (op[p] = "BackgroundRun" /\ (gate[p] = "true" \/ RanUpdate(p))) =>
              /\ stamp[p] # <<>>
              /\ cktime = <<stamp[p][2]>>
              /\ stamp[p][2] > stamp[p][1]
    /\ granted # <<>> => cktime = granted
    /\ \A p \in Procs :
          (op[p] = "BackgroundRun" /\ Future(pre[p][1].cktime, pre[p][1].now)) =>
              /\ Returned(p) /\ result[p] = <<nil>>
              /\ ~RanUpdate(p) /\ reqs[p] = <<>>

\* C13 witness: a BackgroundRun whose Update failed has returned the error, and
\* the timestamp it wrote before the manifest request is still in the file.
C13_Witness ==
    /\ Returned(Main) /\ op[Main] = "BackgroundRun" /\ RanUpdate(Main)
    /\ result[Main] # <<nil>>
    /\ reqs[Main] # <<>>
    /\ cktime = <<stamp[Main][2]>> /\ cktime # pre[Main][1].cktime

-----------------------------------------------------------------------------
\* C14: whenever the gate is entered with the version "dev" or with a schedule
\* timestamp in the future, it returns false and the schedule file is left as
\* it was: no timestamp is created or written.
C14_FalseLeavesTimestamp ==
    \A p \in Procs :
        (op[p] = "BackgroundRun"
            /\ (pre[p][1].u.CurrentVersion = "dev"
                  \/ Future(pre[p][1].cktime, pre[p][1].now))) =>
            /\ gate[p] = "false"
            /\ stamp[p] = <<>>
            /\ cktime = pre[p][1].cktime

\* C14 witness: a gate has returned false on the timestamp that an earlier
\* gate wrote, and that timestamp is still the one in the file.
C14_Witness ==
    /\ Returned(Main) /\ op[Main] = "BackgroundRun" /\ gate[Main] = "false"
    /\ pre[Main][1].u.CurrentVersion # "dev"
    /\ granted # <<>> /\ pre[Main][1].cktime = granted
    /\ Future(granted, pre[Main][1].now)
    /\ cktime = granted

-----------------------------------------------------------------------------
\* C15: whenever the gate returns true at instant now, the timestamp it wrote
\* lies between now + 24h and now + 48h inclusive; and a gate returns true only
\* at or after the timestamp it read, so it is at least 24h after the gate
\* that wrote that timestamp.
C15_NextCheckWindow ==
    \A p \in Procs :
        (op[p] = "BackgroundRun" /\ gate[p] = "true") =>
            /\ stamp[p] # <<>>
            /\ stamp[p][2] >= stamp[p][1] + Day
            /\ stamp[p][2] <= stamp[p][1] + 2 * Day
            /\ cktime = <<stamp[p][2]>>
            /\ pre[p][1].cktime # <<>> =>
                  /\ stamp[p][1] >= pre[p][1].cktime[1]
                  /\ stamp[p][2] >= pre[p][1].cktime[1] + Day

\* C15 witness: a gate has returned true at the very instant the timestamp it
\* read elapsed (24h or more after that one was written), and has written a
\* timestamp exactly 24h ahead.
C15_Witness ==
    /\ op[Main] = "BackgroundRun" /\ gate[Main] = "true"
    /\ pre[Main][1].cktime # <<>> /\ pre[Main][1].cktime[1] >= Day
    /\ stamp[Main][1] = pre[Main][1].cktime[1]
    /\ stamp[Main][2] = stamp[Main][1] + Day

-----------------------------------------------------------------------------
\* the fields of the Updater that a call is not to touch
Configured(up) ==
    <<up.CurrentVersion, up.ApiURL, up.BinURL, up.DiffURL, up.Dir, up.CmdName,
      up.Logger>>

\* member m of the document of this call, or the value old when the document
\* has no usable member m
Member(p, m, old) == IF Doc(p)[m][1] = "value" THEN Doc(p)[m][2] ELSE old

\* C16 (as stated): after UpdateAvailable returns, the Updater, the schedule
\* timestamp and the executable are as they were before the call, and the
\* manifest request is the only request made.
C16_AsStated ==
    \A p \in Procs :
        (Returned(p) /\ op[p] = "UpdateAvailable") =>
            /\ u[p] = pre[p][1].u
            /\ cktime = pre[p][1].cktime
            /\ exe = pre[p][1].exe
            /\ Len(reqs[p]) = 1 /\ tries[p] = <<>>

\* C16 (amended): after UpdateAvailable returns, the schedule timestamp, the
\* executable and the configured fields of the Updater are as they were before
\* the call, and the manifest request is the only request made; but a nil
\* Requester has been replaced by the HTTP one, and when a JSON document was
\* delivered u.Info holds its members, each member the document lacks (or
\* that could not be converted) keeping the value it had before the call.
C16_OnlyInfoAndRequester ==
    \A p \in Procs :
        (Returned(p) /\ op[p] = "UpdateAvailable") =>
            /\ Configured(u[p]) = Configured(pre[p][1].u)
            /\ cktime = pre[p][1].cktime
            /\ exe = pre[p][1].exe
            /\ reqs[p] = <<infoURL(pre[p][1].u)>> /\ tries[p] = <<>>
            /\ u[p].Requester = IF pre[p][1].u.Requester = "nil"
                                  THEN "HTTPRequester" ELSE pre[p][1].u.Requester
            /\ u[p].Info = IF Delivered(p)
                             THEN [Version |-> Member(p, "Version", pre[p][1].u.Info.Version),
                                   Sha256  |-> Member(p, "Sha256", pre[p][1].u.Info.Sha256)]
                           ELSE pre[p][1].u.Info

\* C16 witness: UpdateAvailable has returned (true, nil) on a document without
\* a Sha256 member, and u.Info holds the new version with the hash of before.
C16_Witness ==
    /\ Returned(Main) /\ op[Main] = "UpdateAvailable"
    /\ result[Main] = <<TRUE, nil>>
    /\ Delivered(Main) /\ Doc(Main).Sha256 = Absent
    /\ u[Main].Info.Version # pre[Main][1].u.Info.Version
    /\ u[Main].Info.Sha256 = pre[Main][1].u.Info.Sha256

-----------------------------------------------------------------------------
\* C17 (as stated): with no logger set, a BackgroundRun whose gate returned
\* true goes on to call Update and returns what Update returned, as it does
\* with a logger set.
C17_AsStated ==
    \A p \in Procs :
        (op[p] = "BackgroundRun" /\ gate[p] = "true" /\ u[p].Logger = "nil") =>
            /\ pc[p] # "panic"
            /\ Returned(p) => (RanUpdate(p) /\ result[p] = <<UpdateError(p)>>)

-----------------------------------------------------------------------------
\* the step of BackgroundRun that caller p is at can be taken
CanStep(p) ==
    /\ pc[p] = "idle"   => ENABLED BackgroundRun(p)
    /\ pc[p] = "write"  => ENABLED wantUpdateWrite(p)
    /\ pc[p] = "update" => ENABLED BackgroundUpdate(p)
    /\ pc[p] = "patch"  => ENABLED PatchAttempt(p)
    /\ pc[p] = "full"   => ENABLED FullAttempt(p)

\* callers p and q have both passed the gate, on the same reading of the
\* schedule file: both reads came before either write
ReadBeforeWrites(p, q) ==
    /\ p # q
    /\ gate[p] = "true" /\ gate[q] = "true"
    /\ pre[p][1].cktime = pre[q][1].cktime

\* this call has replaced the executable: an attempt of it returned no error
Replaced(p) == \E i \in DOMAIN tries[p] : tries[p][i].err = nil

\* C18: there is no mutual exclusion between concurrent BackgroundRun calls:
\* wherever one caller is, the other caller's next step can be taken, so a
\* caller is never made to wait; and when two callers have both passed the
\* gate on the same reading of the schedule file, the file holds the timestamp
\* of one of them.
C18_NoMutualExclusion ==
    /\ \A p \in Procs : CanStep(p)
    /\ \A p, q \in Procs :
          ReadBeforeWrites(p, q) => cktime \in {<<stamp[p][2]>>, <<stamp[q][2]>>}

\* C18 witness: two concurrent BackgroundRun calls have both read the schedule
\* file before either wrote it, have both passed the gate, and have both run
\* Update and replaced the executable.
C18_Witness ==
    /\ ReadBeforeWrites("a", "b")
    /\ RanUpdate("a") /\ RanUpdate("b")
    /\ Replaced("a") /\ Replaced("b")
    /\ Returned("a") /\ Returned("b")
    /\ exe.state = "installed"

-----------------------------------------------------------------------------
\* C19 (as stated): whenever Update returns nil in a call where an update was
\* available, the executable installed has the content hash that the manifest
\* fetched in that call carries, whichever attempt installed it.
C19_AsStated ==
    \A p \in Procs :
        (Returned(p) /\ RanUpdate(p) /\ avail[p] = <<TRUE, nil>>
            /\ result[p] = <<nil>>) =>
            /\ exe.state = "installed"
            /\ Doc(p).Sha256 = Value(exe.sha)

-----------------------------------------------------------------------------
\* the calls of the kind given among the first i calls made on the mock
CallsUpTo(i, kind) == {j \in 1..i : mlog[j].call = kind}

FetchCalls == CallsUpTo(Len(mlog), "Fetch")

\* the Fetch calls among the first i calls that invoked a handler
ServedUpTo(i) == {j \in CallsUpTo(i, "Fetch") : mlog[j].invoked # <<>>}

\* the k-th handler registered
KthRegistered(k) ==
    LET j == CHOOSE j \in CallsUpTo(Len(mlog), "handleRequest") :
                 Cardinality(CallsUpTo(j, "handleRequest")) = k
    IN  mlog[j].handler

\* when call i was made, every handler registered so far had been served
Exhausted(i) ==
    Cardinality(CallsUpTo(i, "handleRequest")) <= Cardinality(ServedUpTo(i - 1))

\* what a Fetch call returns when the queue is exhausted
FailsLoudly(i) ==
    /\ mlog[i].rc = <<>> /\ mlog[i].err # nil
    /\ mlog[i].invoked = <<>>
    /\ mlog[i].after = mlog[i].index

\* C20 (as stated): the k-th Fetch call invokes the k-th registered handler
\* with the requested URL, and a Fetch call made when the queue is exhausted
\* returns a nil stream and a non-nil error, invokes no handler and leaves the
\* cursor where it was.
C20_AsStated ==
    \A i \in FetchCalls :
        IF Exhausted(i) THEN FailsLoudly(i)
        ELSE LET k == Cardinality(CallsUpTo(i, "Fetch"))
             IN  /\ Cardinality(CallsUpTo(i, "handleRequest")) >= k
                 /\ mlog[i].invoked =
                        <<[handler |-> KthRegistered(k), url |-> mlog[i].url]>>

\* C20 (amended): the Fetch calls that find a handler left are served in
\* registration order, the k-th of them invoking the k-th registered handler
\* with the requested URL and returning what it returns, and each advances the
\* cursor by one; a Fetch call made when every registered handler has been
\* served returns a nil stream and a non-nil error, invokes no handler and
\* leaves the cursor where it was, so that a handler registered later is
\* served by the next call.
C20_ServedInOrder ==
    /\ \A i \in FetchCalls :
          /\ mlog[i].index = Cardinality(ServedUpTo(i - 1))
          /\ IF Exhausted(i) THEN FailsLoudly(i)
             ELSE LET k == Cardinality(ServedUpTo(i))
                  IN  /\ mlog[i].invoked =
                             <<[handler |-> KthRegistered(k), url |-> mlog[i].url]>>
                      /\ mlog[i].rc = Invoke(KthRegistered(k), mlog[i].url).rc
                      /\ mlog[i].err = Invoke(KthRegistered(k), mlog[i].url).err
                      /\ mlog[i].after = mlog[i].index + 1
    /\ mr.currentIndex = Cardinality(ServedUpTo(Len(mlog)))
    /\ Len(mr.fetches) = Cardinality(CallsUpTo(Len(mlog), "handleRequest"))
    /\ \A k \in DOMAIN mr.fetches : mr.fetches[k] = KthRegistered(k)

\* C20 witness: the first handler was served, a Fetch call on the exhausted
\* queue failed, and the call after the second handler was registered invoked
\* that handler.
C20_Witness ==
    /\ Len(mlog) = 5
    /\ mlog[1].call = "handleRequest" /\ mlog[4].call = "handleRequest"
    /\ mlog[1].handler # mlog[4].handler
    /\ mlog[2].call = "Fetch" /\ mlog[2].invoked # <<>>
    /\ mlog[2].invoked[1].handler = mlog[1].handler
    /\ mlog[3].call = "Fetch" /\ mlog[3].invoked = <<>> /\ mlog[3].err # nil
    /\ mlog[5].call = "Fetch" /\ mlog[5].invoked # <<>>
    /\ mlog[5].invoked[1].handler = mlog[4].handler
    /\ mr.currentIndex = 2

====
